---- MODULE Spec2Model ----
(***************************************************************************)
(* Model of download_ignite2025_slides.py: main() fetches the session      *)
(* catalogue, submits one download_session call per session to a thread    *)
(* pool, and aggregates the returned statuses into four counters.          *)
(*                                                                         *)
(* A string is the sequence of its code points.  A file system is a        *)
(* directory (path -> inode) plus the bytes of every inode, so that an     *)
(* open file that another thread unlinks or truncates behaves as it does   *)
(* under POSIX.  Every file-system call and every HTTP exchange of a       *)
(* worker is one atomic step.  The file object of open(dest, "wb") is a    *)
(* buffered writer: what f.write is given reaches the file when the        *)
(* buffer cannot take it, and at the latest when the file is closed.       *)
(***************************************************************************)
EXTENDS Integers, Sequences, FiniteSets, TLC

\* ---------------------------------------------------------------- bounds
\* Sessions in the catalogue the API returns.
NumItems == 3
\* Longest string over Alphabet that sanitize_filename is applied to on its
\* own.
MaxLen == 3
\* Threads of the pool.  The source sets 10 (line 21); the model scales it
\* below NumItems so that the pool limit is exercised.
MAX_WORKERS == 2
\* A block size (st_blksize) scaled to the bodies of the model, so that a
\* body has a chunk the buffer holds and a chunk longer than the buffer.
SmallBlock == 2
\* The block size of the file system the program was observed on.
BLKSIZE == 4096
\* io.DEFAULT_BUFFER_SIZE.
DEFAULT_BUFFER_SIZE == 8192

\* open(dest, "wb"), line 47: the buffer of the file object has the block
\* size the file system reports for the file, and the default size when it
\* reports none.
BufferSize(blksize) == IF blksize > 1 THEN blksize ELSE DEFAULT_BUFFER_SIZE

\* The interpreters that run the program (line 1 asks for python3): up to
\* CPython 3.12 f.write keeps a chunk that is as long as the buffer, from
\* 3.13 on it writes such a chunk to the file as it does a longer one.
Pythons == {"3.12", "3.13"}

Items == 1..NumItems

\* ------------------------------------------------------------- strings
\* The characters of ASCII from the space (32) to "_" (95), and those from
\* "a" (97) to "~" (126).
Printable ==
  <<" ", "!", "\"", "#", "$", "%", "&", "'", "(", ")", "*", "+", ",", "-", ".",
    "/", "0", "1", "2", "3", "4", "5", "6", "7", "8", "9", ":", ";", "<", "=",
    ">", "?", "@", "A", "B", "C", "D", "E", "F", "G", "H", "I", "J", "K", "L",
    "M", "N", "O", "P", "Q", "R", "S", "T", "U", "V", "W", "X", "Y", "Z", "[",
    "\\", "]", "^", "_">>
LowerCase ==
  <<"a", "b", "c", "d", "e", "f", "g", "h", "i", "j", "k", "l", "m", "n", "o",
    "p", "q", "r", "s", "t", "u", "v", "w", "x", "y", "z", "{", "|", "}", "~">>

\* The code point of such a character, and the string a sequence of such
\* characters spells.
Ord(c) ==
  IF \E k \in 1..Len(Printable) : Printable[k] = c
  THEN 31 + (CHOOSE k \in 1..Len(Printable) : Printable[k] = c)
  ELSE 96 + (CHOOSE k \in 1..Len(LowerCase) : LowerCase[k] = c)
Code(chars) == [k \in 1..Len(chars) |-> Ord(chars[k])]
Space == Ord(" ")
Underscore == Ord("_")

\* ------------------------------------------------------- sanitize_filename
Letters == {"A","B","C","D","E","F","G","H","I","J","K","L","M","N","O","P","Q",
            "R","S","T","U","V","W","X","Y","Z","a","b","c","d","e","f","g","h",
            "i","j","k","l","m","n","o","p","q","r","s","t","u","v","w","x","y","z"}
Digits == {"0","1","2","3","4","5","6","7","8","9"}
\* The class [A-Za-z0-9_.-] of line 26.
SafeChars == { Ord(c) : c \in Letters \cup Digits \cup {"_", ".", "-"} }
\* What str.strip() removes from both ends: the 29 characters str.isspace()
\* holds of.  TAB, LF, VT, FF, CR (9 to 13); FS, GS, RS, US (28 to 31); the
\* space (32); NEL (U+0085); the no-break space (U+00A0); the Ogham space
\* mark (U+1680); the spaces U+2000 to U+200A; the line and the paragraph
\* separator (U+2028, U+2029); the narrow no-break space (U+202F); the
\* medium mathematical space (U+205F); the ideographic space (U+3000).
Whitespace ==
  (9..13) \cup (28..31) \cup {32, 133, 160, 5760} \cup (8192..8202)
     \cup {8232, 8233, 8239, 8287, 12288}

RECURSIVE LStrip(_)
LStrip(s) == IF s # <<>> /\ Head(s) \in Whitespace THEN LStrip(Tail(s)) ELSE s

RECURSIVE RStrip(_)
RStrip(s) ==
  IF s # <<>> /\ s[Len(s)] \in Whitespace THEN RStrip(SubSeq(s, 1, Len(s) - 1)) ELSE s

\* value.strip()
Strip(s) == RStrip(LStrip(s))

\* Mutant of ReplaceSpaces: every whitespace character becomes "_".
ReplaceWhitespace(s) ==
  [k \in 1..Len(s) |-> IF s[k] \in Whitespace THEN Underscore ELSE s[k]]

\* .replace(" ", "_"): the space character only.
ReplaceSpaces(s) ==
  [k \in 1..Len(s) |-> IF s[k] = Space THEN Underscore ELSE s[k]]

IsSafe(c) == c \in SafeChars

\* re.sub(r"[^A-Za-z0-9_.-]", "", value)
RemoveUnsafe(s) == SelectSeq(s, IsSafe)

sanitize_filename(value) == RemoveUnsafe(ReplaceSpaces(Strip(value)))

\* session.get(key, default): a session is a record that has the key or
\* has not.
Get(session, key, default) ==
  IF key \in DOMAIN session THEN session[key] ELSE default

\* The default of line 66.
Untitled == Code(<<"u","n","t","i","t","l","e","d">>)

\* Line 20, with the separator the path is joined by.
DEST_DIR ==
  Code(<<"i","g","n","i","t","e","_","2","0","2","5","_","s","l","i","d","e","s","/">>)

\* The extension of line 67.
Extension == Code(<<".","p","p","t","x">>)

\* Lines 65-67: DEST_DIR / f"{session_code}_{title}.pptx".
DestPath(session) ==
  DEST_DIR
     \o sanitize_filename(Get(session, "sessionCode", <<>>)) \o <<Underscore>>
     \o sanitize_filename(Get(session, "title", Untitled)) \o Extension

\* ------------------------------------------------------------- catalogue
\* What session.get("slideDeck") gives: None for a missing or null entry
\* (none), or a string.
NoDeck == [none |-> TRUE, text |-> <<>>]
Deck(text) == [none |-> FALSE, text |-> text]
Url(n) == Deck(Code(<<"u", n>>))

\* The sessions a catalogue is drawn from.  Their codes differ; 1, 2 and 5
\* sanitize to one file name, 3 and 4 to another.  Session 3 has no title
\* and session 4 no slideDeck entry; its title is " untitled" between an
\* Ogham space mark and an ideographic space.
SessionPool ==
  << [sessionCode |-> Code(<<"A"," ","1">>), title |-> Code(<<"T",":"," ","x">>),
      slideDeck |-> Url("1")],
     [sessionCode |-> Code(<<"A","_","1">>), title |-> Code(<<" ","T","_","x","!">>),
      slideDeck |-> Url("2")],
     [sessionCode |-> Code(<<"B","2">>), slideDeck |-> Url("3")],
     [sessionCode |-> Code(<<"B","!","2">>),
      title |-> <<5760, 32>> \o Untitled \o <<12288>>],
     [sessionCode |-> Code(<<"A","_","1">>), title |-> Code(<<"T","_","x"," ">>),
      slideDeck |-> Deck(<<>>)] >>

PoolIndex == 1..Len(SessionPool)
Paths == { DestPath(SessionPool[k]) : k \in PoolIndex }
NoPath == <<>>

\* ------------------------------------------------------------ file system
\* A directory maps a path to an inode, 0 when no file is there.  The file
\* item i creates gets inode i; a file that is there before the run has the
\* inode InitialInode of its path.
InitialInodes ==
  [p \in Paths |->
     NumItems + (CHOOSE k \in PoolIndex :
                   /\ DestPath(SessionPool[k]) = p
                   /\ \A j \in 1..(k - 1) : DestPath(SessionPool[j]) # p)]
InitialInode(p) == InitialInodes[p]
Inodes == Items \cup { InitialInode(p) : p \in Paths }

\* Bytes of a file that existed, non-empty, before the run.
OldBytes == <<7, 7>>

\* A write of `bytes` at `offset`: a gap is filled with zeros and what
\* lay beyond the written range stays.
WriteAt(old, offset, bytes) ==
  LET end == offset + Len(bytes)
      n   == IF Len(old) > end THEN Len(old) ELSE end
  IN [k \in 1..n |->
        IF k > offset /\ k <= end THEN bytes[k - offset]
        ELSE IF k <= Len(old) THEN old[k]
        ELSE 0]

\* ------------------------------------------------------------ the servers
\* What requests.get(API_URL) can meet.  status 0: the request raised (no
\* connection, no response); json: whether the body parses.
ApiResponses ==
  { [status |-> 200, json |-> TRUE],
    [status |-> 200, json |-> FALSE],
    [status |-> 203, json |-> TRUE],
    [status |-> 404, json |-> TRUE],
    [status |-> 500, json |-> FALSE],
    [status |-> 0,   json |-> FALSE] }

NoApiResp == [status |-> 0 - 1, json |-> FALSE]

\* An asset response: the status (0: requests.get raised: timeout, no
\* connection), the chunks iter_content yields, and whether it raises after
\* the last of them instead of ending.
NoResp == [status |-> 0 - 1, chunks |-> <<>>, raises |-> FALSE]

\* The asset of item i, as the chunks iter_content yields it: of the first
\* a chunk a small buffer holds, an empty chunk and one longer than the
\* buffer; of the second a chunk longer than the buffer and one as long
\* as it; of the others a chunk a small buffer holds and one as long as the
\* buffer, for which the buffer has no room left.
Body(i) ==
  IF i = 1 THEN << <<11>>, <<>>, <<12, 13, 14, 15>> >>
  ELSE IF i = 2 THEN << <<21, 22, 23, 24>>, <<25, 26>> >>
  ELSE << <<10 * i + 1>>, <<10 * i + 2, 10 * i + 3>> >>

AssetResponses(i) ==
  { [status |-> 403, chunks |-> <<>>,                raises |-> FALSE],
    [status |-> 0,   chunks |-> <<>>,                raises |-> FALSE],
    [status |-> 200, chunks |-> <<>>,                raises |-> FALSE],
    [status |-> 200, chunks |-> Body(i),             raises |-> FALSE],
    [status |-> 200, chunks |-> SubSeq(Body(i), 1, 1), raises |-> TRUE] }

RECURSIVE Flatten(_)
Flatten(chunks) ==
  IF chunks = <<>> THEN <<>> ELSE Head(chunks) \o Flatten(Tail(chunks))

\* ------------------------------------------------------------------ state
VARIABLES
  api,        \* the responses the catalogue API may give in this run
  server,     \* server[i]: the responses the asset host may give for item i
  catalogue,  \* the sessions the API returns when it answers
  startFiles, \* the destination directory as the run found it
  bufsize,    \* the buffer size of the files the run opens
  python,     \* the interpreter the run is under
  previous,   \* the statuses of the run before this one, <<>> in a first run
  argument,   \* sanitize_filename called on its own: its argument (value)
  cleaned,    \* and what it returned, <<>> before it did (else <<text>>)
  apiResp,    \* fetch_sessions' resp: what its request met (NoApiResp: none)
  mpc,        \* main: "fetch", "fetched", "submit", "collect", "shutdown",
              \*       "done", "crashed", "aborted"
  queue,      \* the executor's work queue (items, in submission order)
  wpc,        \* wpc[i]: where the download_session call of item i stands
  dest,       \* dest[i]: its destination path (line 67)
  resp,       \* resp[i]: download_file's r while it is open
  taken,      \* taken[i]: chunks of r consumed so far
  ino,        \* ino[i]: the inode of the file it holds open, 0 when none
  pos,        \* pos[i]: the offset of that open file
  buf,        \* buf[i]: the bytes f.write took that are not in the file yet
  reason,     \* reason[i]: what download_file returned (line 73)
  dir,        \* the destination directory: path -> inode, 0 when absent
  data,       \* data[n]: the bytes of inode n
  result,     \* result[i]: the status download_session returned, or "raised"
  statSize,   \* statSize[i]: st_size as line 69 read it, -1 when it did not
  streamed,   \* streamed[i]: <<bytes>> once a stream of item i ended normally
  log,        \* log[i]: the file-system and network calls made for item i
  counters,   \* main's counters (line 91)
  yielded,    \* the futures as_completed has handed to main
  progress,   \* the processed counts of the progress notices (line 106)
  summary     \* the counters as the summary printed them, <<>> before

vars == <<api, server, catalogue, startFiles, bufsize, python, previous, argument,
          cleaned, apiResp, mpc, queue, wpc, dest, resp, taken, ino, pos, buf,
          reason, dir, data, result, statSize, streamed, log, counters,
          yielded, progress, summary>>

envVars    == <<api, server, catalogue, startFiles, bufsize, python, previous>>
unitVars   == <<argument, cleaned>>
fsVars     == <<dir, data>>
\* The locals of a download_session call and of the download_file call in it.
localVars  == <<resp, taken, pos, buf, reason>>
mainVars   == <<apiResp, mpc, counters, yielded, progress, summary>>

Statuses == {"downloaded", "no_deck", "existing", "failed"}

\* What download_file returns (lines 45, 51, 53): success, and the session
\* code, "HTTP <status>" or the text of the exception.
FileResult(ok, kind, status) == [success |-> ok, kind |-> kind, status |-> status]
NoResult == FileResult(FALSE, "none", 0)

\* The directory before the run: each path absent, empty or non-empty.
InitialFiles == [Paths -> {"absent", "empty", "full"}]

\* The state main starts in.
InitRunWith(a, srv, cat, files, size, version) ==
  /\ api = a
  /\ server = srv
  /\ catalogue = cat
  /\ startFiles = files
  /\ bufsize = size
  /\ python = version
  /\ previous = <<>>
  /\ apiResp = NoApiResp
  /\ mpc = "fetch"
  /\ queue = <<>>
  /\ wpc = [i \in Items |-> "idle"]
  /\ dest = [i \in Items |-> NoPath]
  /\ resp = [i \in Items |-> NoResp]
  /\ taken = [i \in Items |-> 0]
  /\ ino = [i \in Items |-> 0]
  /\ pos = [i \in Items |-> 0]
  /\ buf = [i \in Items |-> <<>>]
  /\ reason = [i \in Items |-> NoResult]
  /\ dir = [p \in Paths |-> IF files[p] = "absent" THEN 0 ELSE InitialInode(p)]
  /\ data = [n \in Inodes |->
               IF \E p \in Paths : n = InitialInode(p) /\ files[p] = "full"
               THEN OldBytes ELSE <<>>]
  /\ result = [i \in Items |-> "none"]
  /\ statSize = [i \in Items |-> 0 - 1]
  /\ streamed = [i \in Items |-> <<>>]
  /\ log = [i \in Items |-> <<>>]
  /\ counters = [s \in Statuses |-> 0]
  /\ yielded = {}
  /\ progress = <<>>
  /\ summary = <<>>

\* A run of the program: sanitize_filename is not called on its own.
InitWith(a, srv, cat, files, size, version) ==
  /\ InitRunWith(a, srv, cat, files, size, version)
  /\ argument = <<>>
  /\ cleaned = <<>>

\* Catalogues: NumItems different sessions of the pool, in the pool's order.
Catalogues ==
  { c \in [Items -> PoolIndex] : \A i, j \in Items : i < j => c[i] < c[j] }

\* The block sizes of a run: below the longest chunks of the bodies, or
\* above every body.
BlockSizes == {SmallBlock, BLKSIZE}

Init ==
  \E c \in Catalogues, files \in InitialFiles, blksize \in BlockSizes,
     version \in Pythons :
    InitWith(ApiResponses, [i \in Items |-> AssetResponses(i)],
             [i \in Items |-> SessionPool[c[i]]], files, BufferSize(blksize),
             version)

\* ------------------------------------------------------------- the workers
Append1(f, i, x) == [f EXCEPT ![i] = Append(@, x)]

\* An inode nothing refers to any more (no directory entry, no open file)
\* is freed: its bytes are gone.
Reclaim(d, handles, bytes) ==
  [n \in Inodes |->
     IF (\E p \in Paths : d[p] = n) \/ (\E i \in Items : handles[i] = n)
     THEN bytes[n] ELSE <<>>]

\* download_session ends for item i with status st ("raised": by an
\* exception); its locals are gone.
Return(i, st) ==
  /\ wpc' = [wpc EXCEPT ![i] = "done"]
  /\ result' = [result EXCEPT ![i] = st]
  /\ resp' = [resp EXCEPT ![i] = NoResp]
  /\ taken' = [taken EXCEPT ![i] = 0]
  /\ pos' = [pos EXCEPT ![i] = 0]
  /\ buf' = [buf EXCEPT ![i] = <<>>]
  /\ reason' = [reason EXCEPT ![i] = NoResult]

\* download_session goes on at pc.
Goto(i, pc) ==
  /\ wpc' = [wpc EXCEPT ![i] = pc]
  /\ result' = result

\* The items main submitted (line 96).
Submitted == { i \in Items : wpc[i] # "idle" }

\* The calls a pool thread is executing.
Running == { i \in Items : wpc[i] \notin {"idle", "queued", "done"} }

\* Mutant of FreeThreads: the executor has a thread for every call.
FreeThreadsUnbounded(running) == NumItems

\* ThreadPoolExecutor(max_workers=MAX_WORKERS), line 94: the threads of the
\* pool that execute no call.
FreeThreads(running) == MAX_WORKERS - Cardinality(running)

\* The calls ahead of item i in the work queue.
Ahead(i) ==
  Cardinality({ k \in 1..Len(queue) :
                  \E j \in (k + 1)..Len(queue) : queue[j] = i })

\* Mutant of SlideUrl: str() of the entry, so that a missing deck reads "None".
SlideUrlStr(session) ==
  IF Get(session, "slideDeck", NoDeck).none THEN Code(<<"N","o","n","e">>)
  ELSE Get(session, "slideDeck", NoDeck).text

\* Line 61: session.get("slideDeck") or "".
SlideUrl(session) ==
  IF Get(session, "slideDeck", NoDeck).none THEN <<>>
  ELSE Get(session, "slideDeck", NoDeck).text

\* Mutants of HasContent: st_size > 1, and st_size >= 0.
HasContentOverOne(size) == size > 1
HasContentOrEmpty(size) == size >= 0

\* Mutant of HasContent: st_size > 2.
HasContentOverTwo(size) == size > 2

\* Line 69: st_size > 0.
HasContent(size) == size > 0

\* A pool thread runs lines 61-67 of a call it took from the work queue.
\* The free threads take the calls in the queue's order, each one call, and
\* run them in any order: a call can start while no more calls are ahead
\* of it than other free threads are there to hold them.
WorkerStart(i) ==
  /\ wpc[i] = "queued"
  /\ Ahead(i) < FreeThreads(Running)
  /\ queue' = SelectSeq(queue, LAMBDA j : j # i)
  /\ LET slide_url == SlideUrl(catalogue[i])
     IN IF slide_url = <<>>
        THEN /\ Return(i, "no_deck")
             /\ dest' = dest
        ELSE /\ Goto(i, "exists")
             /\ dest' = [dest EXCEPT ![i] = DestPath(catalogue[i])]
             /\ UNCHANGED localVars
  /\ UNCHANGED <<envVars, unitVars, fsVars, mainVars, ino, statSize, streamed, log>>

\* Line 69, dest.exists().
ExistsCheck(i) ==
  /\ wpc[i] = "exists"
  /\ log' = Append1(log, i, "exists")
  /\ Goto(i, IF dir[dest[i]] = 0 THEN "get" ELSE "stat")
  /\ UNCHANGED <<envVars, unitVars, fsVars, mainVars, localVars, queue, dest,
                 ino, statSize, streamed>>

\* Line 69, dest.stat().st_size > 0; stat raises FileNotFoundError when the
\* file has gone since exists() saw it.
StatCheck(i) ==
  /\ wpc[i] = "stat"
  /\ log' = Append1(log, i, "stat")
  /\ IF dir[dest[i]] = 0
     THEN /\ Return(i, "raised")
          /\ statSize' = statSize
     ELSE LET size == Len(data[dir[dest[i]]])
          IN /\ statSize' = [statSize EXCEPT ![i] = size]
             /\ IF HasContent(size)
                THEN Return(i, "existing")
                ELSE /\ Goto(i, "get")
                     /\ UNCHANGED localVars
  /\ UNCHANGED <<envVars, unitVars, fsVars, mainVars, queue, dest, ino, streamed>>

\* Mutant of NotOk: only a server error counts as a failure.
NotOkServerError(status) == status >= 500

\* Line 44: r.status_code != 200.
NotOk(status) == status # 200

\* Line 73 into download_file, lines 43-45: the request and the status
\* test.  An exception of the request and a status other than 200 end
\* download_file with a failure, which lines 75-78 print.
DownloadFile(i) ==
  /\ wpc[i] = "get"
  /\ log' = Append1(log, i, "get")
  /\ \E r \in server[i] :
       IF r.status = 0 \/ NotOk(r.status)
       THEN /\ Goto(i, "cleanup")
            /\ reason' = [reason EXCEPT ![i] =
                 IF r.status = 0 THEN FileResult(FALSE, "exception", 0)
                 ELSE FileResult(FALSE, "http", r.status)]
            /\ resp' = resp
       ELSE /\ Goto(i, "open")
            /\ resp' = [resp EXCEPT ![i] = r]
            /\ reason' = reason
  /\ UNCHANGED <<envVars, unitVars, fsVars, mainVars, queue, dest, ino, taken,
                 pos, buf, statSize, streamed>>

\* Lines 46-47: mkdir(parents=True, exist_ok=True) makes sure of the
\* directory, which no call tells from an empty one, and open(dest, "wb")
\* creates the file or truncates it; the new file object is at offset 0
\* with an empty buffer.
OpenFile(i) ==
  /\ wpc[i] = "open"
  /\ log' = Append1(log, i, "open")
  /\ LET h == IF dir[dest[i]] = 0 THEN i ELSE dir[dest[i]]
     IN /\ dir' = [dir EXCEPT ![dest[i]] = h]
        /\ data' = [data EXCEPT ![h] = <<>>]
        /\ ino' = [ino EXCEPT ![i] = h]
  /\ Goto(i, "write")
  /\ UNCHANGED <<envVars, unitVars, mainVars, localVars, queue, dest, statSize,
                 streamed>>

\* The file with the buffer of item i written at its offset.
Flushed(i) ==
  IF buf[i] = <<>> THEN data
  ELSE [data EXCEPT ![ino[i]] = WriteAt(@, pos[i], buf[i])]

\* f.write, line 50: whether the buffered writer sends the chunk to the
\* file without keeping it.  Up to CPython 3.12 that is a chunk longer than
\* the buffer, from 3.13 on also one exactly as long.
Bypasses(chunk) ==
  IF python = "3.13" THEN Len(chunk) >= bufsize ELSE Len(chunk) > bufsize

\* f.write, line 50: whether the chunk is added to what the buffer of item i
\* holds.
Fits(i, chunk) ==
  Len(chunk) <= bufsize - Len(buf[i]) /\ ~Bypasses(chunk)

\* Lines 48-50: iter_content yields the next chunk; an empty one is not
\* written.  f.write keeps a chunk that fits.  Otherwise it writes the
\* buffer to the file, and then keeps the chunk in the emptied buffer, or
\* goes on in WriteRest with a chunk that bypasses the buffer.  With nothing
\* in the buffer it writes such a chunk to the file.
WriteChunk(i) ==
  /\ wpc[i] = "write"
  /\ taken[i] < Len(resp[i].chunks)
  /\ LET chunk == resp[i].chunks[taken[i] + 1]
     IN IF chunk = <<>>
        THEN /\ taken' = [taken EXCEPT ![i] = @ + 1]
             /\ Goto(i, "write")
             /\ UNCHANGED <<data, pos, buf, log>>
        ELSE /\ log' = Append1(log, i, "write")
             /\ IF Fits(i, chunk)
                THEN /\ buf' = [buf EXCEPT ![i] = @ \o chunk]
                     /\ taken' = [taken EXCEPT ![i] = @ + 1]
                     /\ Goto(i, "write")
                     /\ UNCHANGED <<data, pos>>
                ELSE IF buf[i] = <<>>
                THEN /\ data' = [data EXCEPT ![ino[i]] = WriteAt(@, pos[i], chunk)]
                     /\ pos' = [pos EXCEPT ![i] = @ + Len(chunk)]
                     /\ taken' = [taken EXCEPT ![i] = @ + 1]
                     /\ Goto(i, "write")
                     /\ buf' = buf
                ELSE /\ data' = Flushed(i)
                     /\ pos' = [pos EXCEPT ![i] = @ + Len(buf[i])]
                     /\ IF Bypasses(chunk)
                        THEN /\ buf' = [buf EXCEPT ![i] = <<>>]
                             /\ taken' = taken
                             /\ Goto(i, "flushed")
                        ELSE /\ buf' = [buf EXCEPT ![i] = chunk]
                             /\ taken' = [taken EXCEPT ![i] = @ + 1]
                             /\ Goto(i, "write")
  /\ UNCHANGED <<envVars, unitVars, mainVars, queue, dest, dir, ino, resp,
                 reason, statSize, streamed>>

\* f.write after it wrote the buffer to the file: the chunk, which bypasses
\* the buffer, goes to the file in a write of its own.
WriteRest(i) ==
  /\ wpc[i] = "flushed"
  /\ LET chunk == resp[i].chunks[taken[i] + 1]
     IN /\ data' = [data EXCEPT ![ino[i]] = WriteAt(@, pos[i], chunk)]
        /\ pos' = [pos EXCEPT ![i] = @ + Len(chunk)]
  /\ taken' = [taken EXCEPT ![i] = @ + 1]
  /\ Goto(i, "write")
  /\ UNCHANGED <<envVars, unitVars, mainVars, queue, dest, dir, ino, resp,
                 reason, statSize, streamed, log, buf>>

\* Lines 48 and 47, 51-53: iter_content has no further chunk: it ends, or
\* raises (the connection broke, the read timed out).  Either way the with
\* block closes the file, which writes the buffer to it.  After the end
\* download_file returns its success and download_session 'downloaded';
\* the exception becomes download_file's failure, which lines 75-78 print.
EndStream(i) ==
  /\ wpc[i] = "write"
  /\ taken[i] = Len(resp[i].chunks)
  /\ log' = Append1(log, i, "close")
  /\ ino' = [ino EXCEPT ![i] = 0]
  /\ data' = Reclaim(dir, ino', Flushed(i))
  /\ IF resp[i].raises
     THEN /\ Goto(i, "cleanup")
          /\ resp' = [resp EXCEPT ![i] = NoResp]
          /\ taken' = [taken EXCEPT ![i] = 0]
          /\ pos' = [pos EXCEPT ![i] = 0]
          /\ buf' = [buf EXCEPT ![i] = <<>>]
          /\ reason' = [reason EXCEPT ![i] = FileResult(FALSE, "exception", 0)]
          /\ streamed' = streamed
     ELSE /\ Return(i, "downloaded")
          /\ streamed' = [streamed EXCEPT ![i] = <<Flatten(resp[i].chunks)>>]
  /\ UNCHANGED <<envVars, unitVars, mainVars, queue, dest, dir, statSize>>

\* Line 79: dest.exists() decides on a delete.
Cleanup(i) ==
  /\ wpc[i] = "cleanup"
  /\ log' = Append1(log, i, "exists")
  /\ IF dir[dest[i]] = 0
     THEN Return(i, "failed")
     ELSE /\ Goto(i, "unlink")
          /\ UNCHANGED localVars
  /\ UNCHANGED <<envVars, unitVars, fsVars, mainVars, queue, dest, ino,
                 statSize, streamed>>

\* Lines 80-81: dest.unlink().  It raises FileNotFoundError when the file
\* has gone since line 79, and OSError when the system refuses the delete;
\* nothing catches either.
Unlink(i) ==
  /\ wpc[i] = "unlink"
  /\ log' = Append1(log, i, "unlink")
  /\ \E permitted \in BOOLEAN :
       IF dir[dest[i]] = 0 \/ ~permitted
       THEN /\ Return(i, "raised")
            /\ UNCHANGED fsVars
       ELSE /\ dir' = [dir EXCEPT ![dest[i]] = 0]
            /\ data' = Reclaim(dir', ino, data)
            /\ Return(i, "failed")
  /\ UNCHANGED <<envVars, unitVars, mainVars, queue, dest, ino, statSize, streamed>>

\* ------------------------------------------------------------------- main
\* Line 30: requests.get(API_URL) meets one of the API's responses.
RequestCatalogue ==
  /\ mpc = "fetch"
  /\ \E r \in api : apiResp' = r
  /\ mpc' = "fetched"
  /\ UNCHANGED <<envVars, unitVars, fsVars, localVars, queue, wpc, dest, ino,
                 result, statSize, streamed, log, counters, yielded, progress,
                 summary>>

\* Mutant of RaisesForStatus: only server errors raise.
RaisesForServerError(status) == status >= 500 /\ status < 600

\* requests' raise_for_status (line 31): an HTTPError for 4xx and 5xx.
RaisesForStatus(status) == status >= 400 /\ status < 600

\* fetch_sessions (lines 28-32) raises: no response, an error status, or a
\* body that is not JSON.
FetchRaises(r) == r.status = 0 \/ RaisesForStatus(r.status) \/ ~r.json

\* Lines 31-32 and 86-94: an exception of fetch_sessions ends main;
\* otherwise it returns the sessions, resp is gone, and main sets up its
\* counters and the executor.
FetchSessions ==
  /\ mpc = "fetched"
  /\ IF FetchRaises(apiResp)
     THEN /\ mpc' = "aborted"
          /\ apiResp' = apiResp
     ELSE /\ mpc' = (IF Len(catalogue) = 0 THEN "collect" ELSE "submit")
          /\ apiResp' = NoApiResp
  /\ UNCHANGED <<envVars, unitVars, fsVars, localVars, queue, wpc, dest, ino,
                 result, statSize, streamed, log, counters, yielded, progress,
                 summary>>

\* Line 96: executor.submit for the next session of the catalogue; the
\* calls submitted before it may be running.  After the last one main
\* enters the as_completed loop.
Submit ==
  /\ mpc = "submit"
  /\ LET k == Cardinality(Submitted) + 1
     IN /\ queue' = Append(queue, k)
        /\ wpc' = [wpc EXCEPT ![k] = "queued"]
        /\ mpc' = (IF k = Len(catalogue) THEN "collect" ELSE "submit")
  /\ UNCHANGED <<envVars, unitVars, fsVars, localVars, dest, ino, result,
                 statSize, streamed, log, counters, yielded, progress, summary,
                 apiResp>>

RECURSIVE SumOver(_, _)
SumOver(f, S) ==
  IF S = {} THEN 0
  ELSE LET x == CHOOSE y \in S : TRUE IN f[x] + SumOver(f, S \ {x})

\* Mutant of Total: the notice counts the downloads only.
TotalDownloaded(c) == c["downloaded"]

\* sum(counters.values())
Total(c) == SumOver(c, DOMAIN c)

\* Mutant of Increment: the count is set, not added to.
IncrementSet(c, status) == [c EXCEPT ![status] = 1]

\* Line 102.
Increment(c, status) == [c EXCEPT ![status] = @ + 1]

\* Lines 99-106: as_completed hands over a finished future; result()
\* re-raises what the call raised, otherwise the status is counted under
\* the lock and a download is followed by a progress notice.
Aggregate(i) ==
  /\ mpc = "collect"
  /\ wpc[i] = "done"
  /\ i \notin yielded
  /\ yielded' = yielded \cup {i}
  /\ IF result[i] = "raised"
     THEN /\ mpc' = "shutdown"
          /\ UNCHANGED <<counters, progress>>
     ELSE /\ mpc' = mpc
          /\ counters' = Increment(counters, result[i])
          /\ progress' = IF result[i] = "downloaded"
                         THEN Append(progress, Total(counters'))
                         ELSE progress
  /\ UNCHANGED <<envVars, unitVars, fsVars, localVars, queue, wpc, dest, ino,
                 result, statSize, streamed, log, summary, apiResp>>

\* Lines 108-114: every future was handed over; the summary is printed.
Summary ==
  /\ mpc = "collect"
  /\ yielded = Submitted
  /\ mpc' = "done"
  /\ summary' = counters
  /\ UNCHANGED <<envVars, unitVars, fsVars, localVars, queue, wpc, dest, ino,
                 result, statSize, streamed, log, counters, yielded, progress,
                 apiResp>>

\* The exception leaves the with block of line 94, whose exit waits for
\* every submitted call to finish; then it ends main without a summary.
Crash ==
  /\ mpc = "shutdown"
  /\ \A i \in Submitted : wpc[i] = "done"
  /\ mpc' = "crashed"
  /\ UNCHANGED <<envVars, unitVars, fsVars, localVars, queue, wpc, dest, ino,
                 result, statSize, streamed, log, counters, yielded, progress,
                 summary, apiResp>>

Next ==
  \/ RequestCatalogue
  \/ FetchSessions
  \/ Submit
  \/ \E i \in Items : WorkerStart(i)
  \/ \E i \in Items : ExistsCheck(i)
  \/ \E i \in Items : StatCheck(i)
  \/ \E i \in Items : DownloadFile(i)
  \/ \E i \in Items : OpenFile(i)
  \/ \E i \in Items : WriteChunk(i)
  \/ \E i \in Items : WriteRest(i)
  \/ \E i \in Items : EndStream(i)
  \/ \E i \in Items : Cleanup(i)
  \/ \E i \in Items : Unlink(i)
  \/ \E i \in Items : Aggregate(i)
  \/ Summary
  \/ Crash

Spec == Init /\ [][Next]_vars

\* ------------------------------------------------- the end-to-end scenario
\* The catalogue [A, B, C] of the scenario: A and C have decks and different
\* destinations, B has none.
ScenarioCatalogue == <<SessionPool[1], SessionPool[4], SessionPool[3]>>

\* A's deck: 1024 bytes.
ScenarioBytes == [k \in 1..1024 |-> 1 + (k % 255)]

\* iter_content yields them as one chunk (chunk_size is 1 MiB) or, when the
\* transfer delivers them in parts, as several.
ScenarioDeliveries ==
  { <<ScenarioBytes>>,
    <<SubSeq(ScenarioBytes, 1, 512), SubSeq(ScenarioBytes, 513, 1024)>>,
    <<SubSeq(ScenarioBytes, 1, 1000), <<>>, SubSeq(ScenarioBytes, 1001, 1024)>> }

ScenarioServer ==
  [i \in Items |->
     IF i = 1 THEN { [status |-> 200, chunks |-> c, raises |-> FALSE] :
                       c \in ScenarioDeliveries }
     ELSE IF i = 3 THEN {[status |-> 403, chunks |-> <<>>, raises |-> FALSE]}
     ELSE {}]

\* The block sizes of the scenario: half the deck, the observed one, and
\* none reported.
ScenarioBlocks == {512, BLKSIZE, 0}

\* The catalogue request succeeds and the directory is empty.
InitScenario ==
  \E blksize \in ScenarioBlocks, version \in Pythons :
    InitWith({[status |-> 200, json |-> TRUE]}, ScenarioServer,
             ScenarioCatalogue, [p \in Paths |-> "absent"], BufferSize(blksize),
             version)

\* The steps the scenario can take.  StatCheck, WriteRest, Unlink and Crash
\* are left out: C10_Scenario shows that no state of the scenario enables
\* them.
NextScenario ==
  \/ RequestCatalogue
  \/ FetchSessions
  \/ Submit
  \/ \E i \in Items : WorkerStart(i)
  \/ \E i \in Items : ExistsCheck(i)
  \/ \E i \in Items : DownloadFile(i)
  \/ \E i \in Items : OpenFile(i)
  \/ \E i \in Items : WriteChunk(i)
  \/ \E i \in Items : EndStream(i)
  \/ \E i \in Items : Cleanup(i)
  \/ \E i \in Items : Aggregate(i)
  \/ Summary

SpecScenario == InitScenario /\ [][NextScenario]_vars

\* ----------------------------------------------------------------- claims
\* What the claims speak of.
RunEnded == mpc \in {"done", "crashed"}
Missing(i) == "slideDeck" \notin DOMAIN catalogue[i]
NoUrl(i) ==
  \/ Missing(i)
  \/ catalogue[i].slideDeck.none
  \/ catalogue[i].slideDeck.text = <<>>
\* The call of item i made its request; its stream ended normally; the call
\* takes the step it returns by.
Fetched(i) == \E k \in 1..Len(log[i]) : log[i][k] = "get"
FetchSucceeded(i) == streamed[i] # <<>>
Returns(i) == wpc[i] # "done" /\ wpc'[i] = "done"
HasFile(p) == dir[p] # 0
Content(p) == data[dir[p]]
CountOf(s) == Cardinality({ i \in Submitted : result[i] = s })

\* C1: when main prints its summary, every item of the catalogue has been
\* counted once, under the status its download_session call returned: each
\* counter equals the number of items with that status and the four add up
\* to the number of items.
C1_CountersBalance ==
  mpc = "done" =>
    /\ \A s \in Statuses : summary[s] = CountOf(s)
    /\ Total(summary) = Len(catalogue)

C1_Witness ==
  /\ mpc = "done"
  /\ summary["downloaded"] >= 1
  /\ summary["existing"] >= 1
  /\ summary["failed"] >= 1

\* C2 (as claimed): no download_session call ends by raising, and main is
\* never ended by an exception of an item.
C2_ErrorsNeverEscape ==
  /\ \A i \in Items : result[i] # "raised"
  /\ mpc \notin {"shutdown", "crashed"}

\* C3 (as claimed): an item whose fetch fails leaves the other items alone.
\* When main prints its summary, an item that downloaded its asset while no
\* other item's fetch succeeded has its own bytes at its destination.
C3_FailureLeavesOthersAlone ==
  mpc = "done" =>
    \A y \in Submitted :
      (/\ result[y] = "downloaded"
       /\ \A x \in Submitted \ {y} : ~FetchSucceeded(x))
      => /\ HasFile(dest[y])
         /\ Content(dest[y]) = streamed[y][1]

\* C4: a call whose size check (line 69) reads a size above zero has
\* returned 'existing' and made no request and opened no file.
C4_ExistingIsNotFetched ==
  \A i \in Items :
    statSize[i] > 0 =>
      /\ wpc[i] = "done"
      /\ result[i] = "existing"
      /\ ~Fetched(i)
      /\ \A k \in 1..Len(log[i]) : log[i][k] \in {"exists", "stat"}

C4_Witness == \E i \in Items : statSize[i] > 0 /\ result[i] = "existing"

\* C5: a call for a session with no slide deck (missing or empty) returns
\* 'no_deck' in its first step, having made no file-system call and no
\* request.
C5_NoDeckTouchesNothing ==
  \A i \in Submitted :
    NoUrl(i) =>
      /\ log[i] = <<>>
      /\ ~Fetched(i)
      /\ dest[i] = NoPath
      /\ wpc[i] \in {"queued", "done"}
      /\ wpc[i] = "done" => result[i] = "no_deck"

C5_Witness ==
  \E i, j \in Submitted :
    /\ Missing(i)
    /\ result[i] = "no_deck"
    /\ ~Missing(j)
    /\ result[j] = "no_deck"

\* C6: a call whose size check (line 69) reads size zero goes on to
\* download_file: it stands at line 73 or has made the request, and it is
\* not classified 'existing'.
C6_EmptyFileIsFetched ==
  \A i \in Items :
    statSize[i] = 0 =>
      /\ wpc[i] = "get" \/ Fetched(i)
      /\ result[i] # "existing"

C6_Witness == \E i \in Items : statSize[i] = 0 /\ Fetched(i)

\* C7 (as claimed): a call whose download_file returned a failure ends by
\* returning 'failed', and in the state it returns in no file is at its
\* destination.
C7_FailedFetchLeavesNoFile ==
  [][\A i \in Items :
       (Returns(i) /\ reason[i].kind # "none" /\ ~reason[i].success)
       => (result'[i] = "failed" /\ dir'[dest'[i]] = 0)]_vars

\* C8 (as claimed): a call whose fetch met status 200 and a stream that
\* ended without error returns 'downloaded', and in the state it returns in
\* the file at its destination holds the bytes of the stream, in order.
C8_DownloadedFileIsTheBody ==
  [][\A i \in Items :
       (Returns(i) /\ streamed'[i] # <<>>)
       => /\ result'[i] = "downloaded"
          /\ dir'[dest'[i]] # 0
          /\ data'[dir'[dest'[i]]] = streamed'[i][1]]_vars

\* The run has touched nothing: no call was submitted and the directory is
\* as main found it.
NothingStarted ==
  /\ \A i \in Items : wpc[i] = "idle" /\ log[i] = <<>> /\ ~Fetched(i)
  /\ queue = <<>>
  /\ \A p \in Paths :
       /\ HasFile(p) <=> startFiles[p] # "absent"
       /\ HasFile(p) => Content(p) = (IF startFiles[p] = "full" THEN OldBytes ELSE <<>>)

\* C9 (as claimed): a catalogue request that raised, met a status other
\* than 200 or met a body that is not JSON aborts the run before anything is
\* submitted.
C9_AnyNon200Aborts ==
  [][(mpc = "fetched" /\ (apiResp.status # 200 \/ ~apiResp.json))
     => (mpc' = "aborted" /\ NothingStarted')]_vars

\* C9 (amended): a catalogue request that raised, met a 4xx or 5xx status
\* or met a body that is not JSON aborts the run before anything is
\* submitted, and an aborted run never starts anything; a catalogue request
\* that did none of these is followed by the submission of every session.
C9_ErrorStatusAborts ==
  /\ [][mpc = "fetched" =>
          IF \/ apiResp.status = 0
             \/ (apiResp.status >= 400 /\ apiResp.status <= 599)
             \/ ~apiResp.json
          THEN mpc' = "aborted" /\ NothingStarted'
          ELSE mpc' = "submit"]_vars
  /\ [](mpc = "aborted" => NothingStarted)
  /\ [](mpc \in {"collect", "shutdown", "crashed", "done"}
          => Submitted = 1..Len(catalogue))

C9_Witness == mpc = "aborted" /\ apiResp.status = 404 /\ apiResp.json

\* C10: in the scenario [A: 200 and 1024 bytes, B: no deck, C: 403] over an
\* empty directory, whatever the block size, no call reaches the stat, the
\* unlink or a second write for one chunk, and none raises;
\* when main prints its summary the counters are downloaded 1, no_deck 1,
\* existing 0, failed 1 and the one file of the directory is A's, holding
\* A's 1024 bytes.
C10_Scenario ==
  /\ \A i \in Items :
       wpc[i] \notin {"stat", "flushed", "unlink"} /\ result[i] # "raised"
  /\ mpc \notin {"aborted", "shutdown", "crashed"}
  /\ mpc = "done" =>
       /\ summary = [downloaded |-> 1, no_deck |-> 1, existing |-> 0, failed |-> 1]
       /\ { p \in Paths : HasFile(p) } = {DestPath(ScenarioCatalogue[1])}
       /\ Content(DestPath(ScenarioCatalogue[1])) = ScenarioBytes
       /\ Len(Content(DestPath(ScenarioCatalogue[1]))) = 1024

\* The scenario has ended under the interpreter that writes a chunk as long
\* as the buffer to the file, with a buffer of half the deck, after two
\* f.write calls for A.
C10_Witness ==
  /\ mpc = "done"
  /\ summary["downloaded"] = 1
  /\ summary["failed"] = 1
  /\ HasFile(DestPath(ScenarioCatalogue[1]))
  /\ python = "3.13"
  /\ bufsize = 512
  /\ Len(SelectSeq(log[1], LAMBDA e : e = "write")) = 2

\* The calls that have made their request and not yet left download_file.
InFlight == { i \in Items : wpc[i] \in {"open", "write", "flushed"} }

\* C11: in every state at most MAX_WORKERS download_session calls are in
\* progress, and so at most MAX_WORKERS asset fetches are in flight, however
\* many sessions the catalogue has.
C11_PoolBound ==
  /\ Cardinality(Running) <= MAX_WORKERS
  /\ Cardinality(InFlight) <= MAX_WORKERS

\* The pool is full, every thread streams a body, and a call waits.
C11_Witness ==
  /\ Len(catalogue) > MAX_WORKERS
  /\ Cardinality(InFlight) = MAX_WORKERS
  /\ queue # <<>>

\* ---------------------------------------------------------------- fairness
\* The steps of the call for item i, and the steps of the main thread.
Worker(i) ==
  \/ WorkerStart(i) \/ ExistsCheck(i) \/ StatCheck(i) \/ DownloadFile(i)
  \/ OpenFile(i) \/ WriteChunk(i) \/ WriteRest(i) \/ EndStream(i)
  \/ Cleanup(i) \/ Unlink(i)

\* The steps of the main thread once the catalogue request has returned.
Main ==
  \/ FetchSessions \/ Submit
  \/ (\E i \in Items : Aggregate(i)) \/ Summary \/ Crash

\* The operating system lets no thread that can run wait for ever, and a
\* request for an asset (timeout=30, line 43) is answered or gives up, with
\* a body that ends.  Nothing makes the catalogue request return: line 30
\* sets no timeout, so RequestCatalogue may never happen.
Fairness == WF_vars(Main) /\ \A i \in Items : WF_vars(Worker(i))

SpecFair == Init /\ [][Next]_vars /\ Fairness

\* C12 (as claimed): once the catalogue is fetched and its sessions are
\* submitted, the run comes to its summary: every session's call has
\* returned and has been aggregated, and the counters are printed.
C12_RunCompletes ==
  (mpc = "collect") ~>
     (/\ mpc = "done"
      /\ \A i \in Submitted : wpc[i] = "done"
      /\ yielded = Submitted
      /\ summary = counters)

\* ------------------------------------------------------------- a second run
\* What a directory entry looks like to the run that finds it.
FileState(p) ==
  IF dir[p] = 0 THEN "absent" ELSE IF data[dir[p]] = <<>> THEN "empty" ELSE "full"

\* The program is run again once a run has printed its summary: the
\* catalogue, the servers and the directory are what they were, everything
\* else starts afresh; `previous` keeps the statuses of the run that ended.
Rerun ==
  /\ mpc = "done"
  /\ previous = <<>>
  /\ previous' = result
  /\ startFiles' = [p \in Paths |-> FileState(p)]
  /\ apiResp' = NoApiResp
  /\ mpc' = "fetch"
  /\ queue' = <<>>
  /\ wpc' = [i \in Items |-> "idle"]
  /\ dest' = [i \in Items |-> NoPath]
  /\ result' = [i \in Items |-> "none"]
  /\ statSize' = [i \in Items |-> 0 - 1]
  /\ streamed' = [i \in Items |-> <<>>]
  /\ log' = [i \in Items |-> <<>>]
  /\ counters' = [s \in Statuses |-> 0]
  /\ yielded' = {}
  /\ progress' = <<>>
  /\ summary' = <<>>
  /\ UNCHANGED <<api, server, catalogue, bufsize, python, unitVars, fsVars,
                 localVars, ino>>

\* A first run over one catalogue with two sessions of one destination, then
\* a second run.
RerunCatalogue == <<SessionPool[1], SessionPool[2], SessionPool[3]>>

\* The first run finds the directory empty, or every file in place.
RerunFiles == { [p \in Paths |-> "absent"], [p \in Paths |-> "full"] }

InitRerun ==
  \E files \in RerunFiles, version \in Pythons :
    InitWith({[status |-> 200, json |-> TRUE]}, [i \in Items |-> AssetResponses(i)],
             RerunCatalogue, files, BufferSize(SmallBlock), version)

NextRerun == Next \/ Rerun

SpecRerun == InitRerun /\ [][NextRerun]_vars

\* C13 (as claimed): in a second run over the same catalogue and the
\* directory the first run left, a session the first run classified
\* 'downloaded' or 'existing' gets no request, and its call returns
\* 'existing'.
C13_RerunSkipsWhatIsThere ==
  previous # <<>> =>
    \A i \in Submitted :
      previous[i] \in {"downloaded", "existing"} =>
        /\ ~Fetched(i)
        /\ wpc[i] = "done" => result[i] = "existing"

\* How often call c occurs in the log of item i.
Count(i, c) == Cardinality({ k \in 1..Len(log[i]) : log[i][k] = c })

\* C14 (as claimed): every session is resolved once, with one outcome, and
\* gets at most one request; a call whose request failed asks nothing
\* again and returns 'failed'.  In states: a call has made at most one
\* request; a call that has returned has one of the four statuses; the
\* futures main was handed are finished calls; and at the summary every
\* session has been handed over.  In steps: a call that has returned takes
\* no further step, and a call returning after download_file reported a
\* failure returns 'failed'.
C14_OnceAndNoRetry ==
  /\ [](\A i \in Items :
          /\ Count(i, "get") <= 1
          /\ wpc[i] = "done" => result[i] \in Statuses
          /\ i \in yielded => wpc[i] = "done")
  /\ [](mpc = "done" => yielded = Submitted)
  /\ [][\A i \in Items :
          /\ wpc[i] = "done" => (wpc'[i] = "done" /\ result'[i] = result[i]
                                    /\ log'[i] = log[i])
          /\ (Returns(i) /\ reason[i].kind # "none" /\ ~reason[i].success)
               => (result'[i] = "failed" /\ Count(i, "get") = 1)]_vars

\* The other sessions of the catalogue that sanitize to the path of item i.
SamePath(i) ==
  { j \in Submitted \ {i} : DestPath(catalogue[j]) = DestPath(catalogue[i]) }

\* C15 (as claimed): when two sessions of one destination are both fetched,
\* the later writer wins.  A call that finishes its download after another
\* call of the same destination finished its own, while no other call is
\* still to come or in progress, is the last writer: from its return on the
\* file holds the complete body it fetched.
C15_LaterWriterWins ==
  [][\A i \in Items :
       (/\ Returns(i)
        /\ streamed'[i] # <<>>
        /\ \E j \in SamePath(i) : streamed[j] # <<>>
        /\ \A j \in Submitted \ {i} : wpc[j] = "done")
       => /\ dir'[dest'[i]] # 0
          /\ data'[dir'[dest'[i]]] = streamed'[i][1]]_vars

\* The notices are in increasing order.
Increasing(seq) == \A k \in 1..(Len(seq) - 1) : seq[k] < seq[k + 1]

\* C16: main emits a progress notice when, and only when, the status it
\* aggregates is 'downloaded'; the count of the notice is the number of
\* futures aggregated so far, that one included, whatever their statuses;
\* every count lies between 1 and the number of sessions, and the counts
\* increase from one notice to the next.
C16_ProgressNotices ==
  /\ [][\A i \in Items :
          (i \notin yielded /\ i \in yielded')
          => IF result[i] = "downloaded"
             THEN progress' = Append(progress, Cardinality(yielded'))
             ELSE progress' = progress]_vars
  /\ [][yielded' = yielded => progress' = progress]_vars
  /\ [](/\ Len(progress) = counters["downloaded"]
        /\ \A k \in 1..Len(progress) : progress[k] \in 1..Len(catalogue)
        /\ Increasing(progress))

\* Two notices, the first after a session that was not downloaded and the
\* second after another one.
C16_Witness ==
  /\ mpc = "done"
  /\ Len(progress) = 2
  /\ progress[1] > 1
  /\ progress[2] > progress[1]

\* ------------------------------------------- sanitize_filename on its own
\* Characters of the arguments: letters, a digit, the three allowed signs,
\* signs outside the class ("!", ":" and U+00E9, an accented letter), and
\* whitespace of six kinds: the space, the tab, the vertical tab, the
\* no-break space, the Ogham space mark and the ideographic space.
Alphabet ==
  { Ord(c) : c \in {"a", "Z", "1", ".", "-", "_", "!", ":", " "} }
     \cup {233, 9, 11, 160, 5760, 12288}

\* The example of the specification, "Intro to AI: Part 1!".
Example ==
  Code(<<"I","n","t","r","o"," ","t","o"," ","A","I",":"," ","P","a","r","t"," ","1","!">>)

\* A letter after a space, a whitespace character of any kind and a space.
Indented == { <<Space, w, Space>> \o Code(<<"a">>) : w \in Whitespace }

Arguments ==
  UNION { [1..n -> Alphabet] : n \in 0..MaxLen } \cup {Example} \cup Indented

InitSanitize ==
  \E v \in Arguments :
    /\ InitRunWith({}, [i \in Items |-> {}], <<>>, [p \in Paths |-> "absent"],
                   BufferSize(SmallBlock), "3.12")
    /\ argument = v
    /\ cleaned = <<>>

\* The call sanitize_filename(argument).
Sanitize ==
  /\ cleaned = <<>>
  /\ cleaned' = <<sanitize_filename(argument)>>
  /\ UNCHANGED <<envVars, fsVars, localVars, mainVars, argument, queue, wpc,
                 dest, ino, result, statSize, streamed, log>>

NextSanitize == Sanitize

SpecSanitize == InitSanitize /\ [][NextSanitize]_vars

\* What the descriptions of the function say, written out position by
\* position: the part of s between its first and its last character that is
\* no whitespace, with every character of `blanks` turned into "_", and of
\* that the characters of the class [A-Za-z0-9_.-].
Described(s, blanks) ==
  LET inked == { k \in 1..Len(s) : s[k] \notin Whitespace }
      first == CHOOSE k \in inked : \A j \in inked : k <= j
      last  == CHOOSE k \in inked : \A j \in inked : k >= j
      t == IF inked = {} THEN <<>> ELSE [k \in 1..(last - first + 1) |-> s[first + k - 1]]
      u == [k \in 1..Len(t) |-> IF t[k] \in blanks THEN Underscore ELSE t[k]]
      kept == { k \in 1..Len(u) : u[k] \in SafeChars }
  IN [n \in 1..Cardinality(kept) |->
        u[CHOOSE k \in kept : Cardinality({ j \in kept : j < k }) = n - 1]]

ExampleCleaned ==
  Code(<<"I","n","t","r","o","_","t","o","_","A","I","_","P","a","r","t","_","1">>)

\* C17 (as claimed): sanitize_filename(s) is s stripped of leading and
\* trailing whitespace, with every remaining whitespace character replaced
\* by "_" and every character outside [A-Za-z0-9_.-] removed; the result
\* has only characters of that class, and the example gives
\* "Intro_to_AI_Part_1".
C17_ReplacesWhitespace ==
  cleaned # <<>> =>
    /\ cleaned[1] = Described(argument, Whitespace)
    /\ \A k \in 1..Len(cleaned[1]) : cleaned[1][k] \in SafeChars
    /\ argument = Example => cleaned[1] = ExampleCleaned

\* C17 (amended): sanitize_filename(s) is s stripped of leading and trailing
\* whitespace, with every remaining space character replaced by "_" and
\* every character outside [A-Za-z0-9_.-] removed, other whitespace
\* included; the result has only characters of that class, and the example
\* gives "Intro_to_AI_Part_1".
C17_ReplacesSpaces ==
  cleaned # <<>> =>
    /\ cleaned[1] = Described(argument, {Space})
    /\ \A k \in 1..Len(cleaned[1]) : cleaned[1][k] \in SafeChars
    /\ argument = Example => cleaned[1] = ExampleCleaned

\* The function was applied to the example.
C17_Witness == argument = Example /\ cleaned = <<ExampleCleaned>>

\* C18: a file that was in the directory, with content, when the run
\* started is never deleted, replaced, truncated or written: in every state
\* its path leads to the same file with the same bytes, and no call holds
\* it open.
C18_OldFilesUntouched ==
  \A p \in Paths :
    startFiles[p] = "full" =>
      /\ dir[p] = InitialInode(p)
      /\ data[dir[p]] = OldBytes
      /\ \A i \in Items : ino[i] # InitialInode(p)

\* The run ended; two sessions of one destination found the old file there
\* and left it, while a third session downloaded its deck next to it.
C18_Witness ==
  /\ mpc = "done"
  /\ \E i, j, k \in Submitted :
       /\ i # j
       /\ dest[i] # NoPath
       /\ dest[i] = dest[j]
       /\ startFiles[dest[i]] = "full"
       /\ result[i] = "existing"
       /\ result[j] = "existing"
       /\ result[k] = "downloaded"
       /\ Content(dest[k]) # OldBytes

\* C19 (as claimed): when main prints its summary, every session counted
\* 'downloaded' or 'existing' has a file at its destination, also when two
\* sessions sanitize to one path.
C19_CountedFilesExist ==
  mpc = "done" =>
    \A i \in Submitted :
      result[i] \in {"downloaded", "existing"} => HasFile(dest[i])
====
